---- MODULE Spec2Model ----
(***************************************************************************)
(* topn: print the N largest integers of a newline-delimited input.        *)
(* Model of src/top_n.go: main, buildHeap, takeTopN, printNumbers, the     *)
(* IntHeap/TopHeap methods and the container/heap functions they drive.    *)
(* Go slices are 0-based; a slice is modelled as a TLA+ sequence and the   *)
(* Go index i is the sequence index i + 1.                                 *)
(***************************************************************************)
EXTENDS Integers, Sequences, FiniteSets, TLC

VARIABLES
    fileFlag,   \* *fileFlag, the -file option               (setupFlags)
    nFlag,      \* *nFlag, the -n option, a uint held as a Word (setupFlags)
    input,      \* the lines of the source behind numberScanner
    pos,        \* how many lines Scan() has delivered
    heap,       \* topHeap.IntHeap, the backing slice
    value,      \* buildHeap's value, the last integer parsed
    selection,  \* takeTopN's selection
    i,          \* takeTopN's loop counter
    stdout,     \* the characters written to standard output
    stderr,     \* the last message written to standard error
    err,        \* "nil", or what failed: "open", "scan", "panic"
    exitCode,   \* the process exit code, -1 while running
    pc          \* where main is

vars == <<fileFlag, nFlag, input, pos, heap, value, selection, i,
          stdout, stderr, err, exitCode, pc>>

(* ------------------------------ bounds --------------------------------- *)

MaxInput == 5
MaxN == 4

(* --------------------------- program constants ------------------------- *)

defaultFileName == ""
defaultN == 5

\* Width of uint and int on the 64-bit build.
IntBits == 64

(* ------------------------------ uint and int --------------------------- *)
(* A 64-bit word does not fit the integers of the model checker, so a word *)
(* is held as its LimbBits-bit digits, least significant first: the word   *)
(* <<a, b, c, d>> is a + b*2^16 + c*2^32 + d*2^48.                         *)

LimbBits == 16
LimbBase == 2 ^ LimbBits
NumLimbs == IntBits \div LimbBits

Words == [1..NumLimbs -> 0..(LimbBase - 1)]

\* the word of a number k, 0 <= k < 2^31 (a literal, a length, a counter):
\* it fills the two lowest limbs
Uint(k) ==
    [j \in 1..NumLimbs |->
        IF j = 1 THEN k % LimbBase ELSE IF j = 2 THEN k \div LimbBase ELSE 0]

\* a < b on uint: the most significant limb that differs decides
RECURSIVE UintLessFrom(_, _, _)
UintLessFrom(a, b, j) ==
    IF j = 0 THEN FALSE
    ELSE IF a[j] # b[j] THEN a[j] < b[j]
    ELSE UintLessFrom(a, b, j - 1)

UintLess(a, b) == UintLessFrom(a, b, NumLimbs)

\* the top bit of a word, the sign of the int with the same bits
SignBit(w) == w[NumLimbs] >= LimbBase \div 2

\* 2^64 - w for a word w # 0: every bit inverted, plus one
RECURSIVE IncrementFrom(_, _)
IncrementFrom(w, j) ==
    IF j > NumLimbs THEN w
    ELSE IF w[j] = LimbBase - 1 THEN IncrementFrom([w EXCEPT ![j] = 0], j + 1)
    ELSE [w EXCEPT ![j] = w[j] + 1]

TwosComplement(w) ==
    IncrementFrom([j \in 1..NumLimbs |-> LimbBase - 1 - w[j]], 1)

\* An int is held as its sign and its magnitude.  x < s on int, for an int
\* x >= 0 given as a number (a length): a negative s is below every length.
IntLess(x, s) == ~s.negative /\ UintLess(Uint(x), s.magnitude)

(* ------------------------------ strconv.Atoi --------------------------- *)
(* A line is a sequence of one-character strings.                          *)

Digits == <<"0", "1", "2", "3", "4", "5", "6", "7", "8", "9">>

IsDigit(c) == \E d \in 1..10 : Digits[d] = c

DigitVal(c) == (CHOOSE d \in 1..10 : Digits[d] = c) - 1

RECURSIVE ParseDigits(_, _)
ParseDigits(s, acc) ==
    IF s = <<>> THEN acc
    ELSE ParseDigits(Tail(s), acc * 10 + DigitVal(Head(s)))

RECURSIVE DigitPrefix(_)
DigitPrefix(s) ==
    IF s = <<>> \/ ~IsDigit(Head(s)) THEN <<>>
    ELSE <<Head(s)>> \o DigitPrefix(Tail(s))

\* Variant of Atoi: parses the leading digits and ignores what follows them,
\* as C's atoi does.
AtoiLeadingDigits(s) ==
    LET signed == s # <<>> /\ Head(s) \in {"+", "-"}
        body   == DigitPrefix(IF signed THEN Tail(s) ELSE s)
        m      == ParseDigits(body, 0)
    IN  IF body = <<>> THEN [value |-> 0, err |-> TRUE]
        ELSE [value |-> IF Head(s) = "-" THEN 0 - m ELSE m, err |-> FALSE]

\* strconv.Atoi(s): an optional sign, then one or more decimal digits and
\* nothing else.  Lines here are far shorter than the 19 digits at which the
\* range error of Atoi starts, so that error is not modelled.
Atoi(s) ==
    LET signed == s # <<>> /\ Head(s) \in {"+", "-"}
        body   == IF signed THEN Tail(s) ELSE s
        m      == ParseDigits(body, 0)
    IN  IF body = <<>> \/ \E k \in 1..Len(body) : ~IsDigit(body[k])
        THEN [value |-> 0, err |-> TRUE]
        ELSE [value |-> IF Head(s) = "-" THEN 0 - m ELSE m, err |-> FALSE]

(* ------------------------------ fmt.Printf ----------------------------- *)

RECURSIVE FormatUint(_)
FormatUint(m) ==
    IF m < 10 THEN <<Digits[m + 1]>>
    ELSE FormatUint(m \div 10) \o <<Digits[(m % 10) + 1]>>

\* fmt.Printf("%d", v)
FormatInt(v) == IF v < 0 THEN <<"-">> \o FormatUint(0 - v) ELSE FormatUint(v)

(* ------------------------- IntHeap (heap.Interface) -------------------- *)

IntHeap_Less(h, a, b) == h[a + 1] < h[b + 1]

IntHeap_Swap(h, a, b) == [h EXCEPT ![a + 1] = h[b + 1], ![b + 1] = h[a + 1]]

IntHeap_Push(h, x) == Append(h, x)

\* Variant of IntHeap.Pop: returns the first element instead of the last.
IntHeap_PopFirst(h) == [heap |-> SubSeq(h, 1, Len(h) - 1), x |-> h[1]]

\* returns the shortened slice and the removed last element
IntHeap_Pop(h) == [heap |-> SubSeq(h, 1, Len(h) - 1), x |-> h[Len(h)]]

NewTopHeap(n) == <<>>

(* ------------------------------ container/heap ------------------------- *)

\* Go's integer division truncates toward zero.
GoDiv(a, b) == IF a >= 0 THEN a \div b ELSE 0 - ((0 - a) \div b)

\* Variant of up: the pushed element stays where it was appended.
heap_upNoSift(h, j) == h

RECURSIVE heap_up(_, _)
heap_up(h, j) ==
    LET p == GoDiv(j - 1, 2)
    IN  IF p = j \/ ~IntHeap_Less(h, j, p) THEN h
        ELSE heap_up(IntHeap_Swap(h, p, j), p)

\* Variant of down: always descends to the left child.
RECURSIVE heap_downLeftOnly(_, _, _)
heap_downLeftOnly(h, i0, n) ==
    LET j1 == 2 * i0 + 1
    IN  IF j1 >= n \/ j1 < 0 THEN h
        ELSE IF ~IntHeap_Less(h, j1, i0) THEN h
        ELSE heap_downLeftOnly(IntHeap_Swap(h, i0, j1), j1, n)

\* Variant of down: the element stays at the root.
heap_downNoSift(h, i0, n) == h

RECURSIVE heap_down(_, _, _)
heap_down(h, i0, n) ==
    LET j1 == 2 * i0 + 1
        j2 == j1 + 1
    IN  IF j1 >= n \/ j1 < 0 THEN h
        ELSE LET j == IF j2 < n /\ IntHeap_Less(h, j2, j1) THEN j2 ELSE j1
             IN  IF ~IntHeap_Less(h, j, i0) THEN h
                 ELSE heap_down(IntHeap_Swap(h, i0, j), j, n)

RECURSIVE heap_InitFrom(_, _)
heap_InitFrom(h, k) ==
    IF k < 0 THEN h ELSE heap_InitFrom(heap_down(h, k, Len(h)), k - 1)

heap_Init(h) == heap_InitFrom(h, GoDiv(Len(h), 2) - 1)

\* Variant of heap.Push: appends without restoring the heap order.
heap_PushNoUp(h, x) == IntHeap_Push(h, x)

heap_Push(h, x) == heap_up(IntHeap_Push(h, x), Len(h))

\* Variant of heap.Pop: removes the last element of the slice without
\* bringing the minimum there first.
heap_PopLast(h) == IntHeap_Pop(h)

\* the caller guarantees a non-empty heap
heap_Pop(h) ==
    LET last == Len(h) - 1
    IN  IntHeap_Pop(heap_down(IntHeap_Swap(h, 0, last), 0, last))

ReplaceMin(h, v) == heap_Push(heap_Pop(h).heap, v)

(* ------------------------------ buildHeap ------------------------------ *)

\* int(*nFlag): the conversion keeps the 64 bits of the uint and reads them
\* as two's complement: the same number below 2^63, and u - 2^64, a negative
\* number, from 2^63 on.
uintToInt(u) ==
    IF SignBit(u) THEN [negative |-> TRUE, magnitude |-> TwosComplement(u)]
    ELSE [negative |-> FALSE, magnitude |-> u]

\* Variant of the fill-phase test: <= for <.
fillPhaseOffByOne(h, n) ==
    \/ IntLess(Len(h), uintToInt(n))
    \/ uintToInt(n) = [negative |-> FALSE, magnitude |-> Uint(Len(h))]

\* topHeap.Len() < int(*nFlag)
fillPhase(h, n) == IntLess(Len(h), uintToInt(n))

\* Variant of the comparison with the minimum: compares with the last
\* element of the slice instead of the first.
belowLastElement(h, v) == v < h[Len(h)]

\* Variant of the comparison with the minimum: > for <.
belowMinimumInverted(h, v) == v > h[1]

\* value < topHeap.IntHeap[0]; the caller has checked that index 0 exists
belowMinimum(h, v) == v < h[1]

\* One iteration of the scan loop on the line `text`, as a function of the
\* heap: the branch taken and the heap it leaves.  "panic" is the run-time
\* fault of indexing IntHeap[0] in an empty slice.
loopBody(h, n, text) ==
    LET a == Atoi(text)
    IN  IF a.err THEN [branch |-> "skip", heap |-> h]
        ELSE IF fillPhase(h, n)
             THEN [branch |-> "fill", heap |-> heap_Push(h, a.value)]
        ELSE IF Len(h) = 0 THEN [branch |-> "panic", heap |-> h]
        ELSE IF belowMinimum(h, a.value) THEN [branch |-> "discard", heap |-> h]
        ELSE [branch |-> "replace", heap |-> ReplaceMin(h, a.value)]

\* buildHeap on a whole input without read failure: the heap returned, or the
\* fault that ends the run.
RECURSIVE scanLoop(_, _, _)
scanLoop(h, n, lines) ==
    IF lines = <<>> THEN [heap |-> h, panic |-> FALSE]
    ELSE LET r == loopBody(h, n, Head(lines))
         IN  IF r.branch = "panic" THEN [heap |-> h, panic |-> TRUE]
             ELSE scanLoop(r.heap, n, Tail(lines))

buildHeap(lines, n) == scanLoop(heap_Init(NewTopHeap(n)), n, lines)

(* ------------------------------ takeTopN ------------------------------- *)

RECURSIVE takeLoop(_, _, _, _)
takeLoop(h, n, k, sel) ==
    IF UintLess(Uint(k), n) /\ Len(h) > 0
    THEN LET r == heap_Pop(h) IN takeLoop(r.heap, n, k + 1, Append(sel, r.x))
    ELSE sel

takeTopN(h, n) == IF Len(h) = 0 THEN <<>> ELSE takeLoop(h, n, 0, <<>>)

(* ------------------------------ printNumbers --------------------------- *)

RECURSIVE printFrom(_, _)
printFrom(numbers, k) ==
    IF k < 0 THEN <<>>
    ELSE IF k = 0 THEN FormatInt(numbers[k + 1])
    ELSE FormatInt(numbers[k + 1]) \o <<" ">> \o printFrom(numbers, k - 1)

\* Variant of printNumbers: prints from the start of the slice.
RECURSIVE printAscendingFrom(_, _)
printAscendingFrom(numbers, k) ==
    IF k > Len(numbers) THEN <<>>
    ELSE IF k = Len(numbers) THEN FormatInt(numbers[k])
    ELSE FormatInt(numbers[k]) \o <<" ">> \o printAscendingFrom(numbers, k + 1)

printNumbersAscending(numbers) == printAscendingFrom(numbers, 1) \o <<"\n">>

\* everything printNumbers writes to standard output
printNumbers(numbers) == printFrom(numbers, Len(numbers) - 1) \o <<"\n">>

(* ------------------------------ the inputs ----------------------------- *)

\* The lines an input is made of: integers (one with a sign, one with a
\* leading zero) and a line that starts with a digit and is no integer.
Lines == { <<"1">>, <<"0", "3">>, <<"-", "2">>, <<"1", "x">> }

Inputs == UNION { [1..k -> Lines] : k \in 0..MaxInput }

\* The scenarios of the program's documentation, and one with blank and
\* non-numeric lines interleaved.
Scenario1 == << <<"5">>, <<"3">>, <<"9">>, <<"1">>, <<"9">>, <<"7">> >>
Scenario2 == << <<"1", "0">>, <<"2", "0">>, <<"3", "0">> >>
Scenario3 == << <<"7">>, <<"a", "b", "c">>, <<>>, <<"+", "7">>, <<"-">>, <<"-", "0">> >>

\* The capacities tried with every input: the small ones, and the least and
\* the greatest uint whose top bit is set, 2^63 and 2^64 - 1.  The greatest
\* int, 2^63 - 1, is tried with the scenarios.
MaxIntWord == [j \in 1..NumLimbs |->
                  IF j = NumLimbs THEN LimbBase \div 2 - 1 ELSE LimbBase - 1]
MinWideWord == [j \in 1..NumLimbs |-> IF j = NumLimbs THEN LimbBase \div 2 ELSE 0]
MaxUintWord == [j \in 1..NumLimbs |-> LimbBase - 1]

Capacities == { Uint(k) : k \in 0..MaxN } \cup { MinWideWord, MaxUintWord }

Runs == (Inputs \X Capacities)
            \cup { <<Scenario1, Uint(3)>>, <<Scenario2, Uint(defaultN)>>,
                   <<Scenario3, Uint(2)>>, <<<<>>, Uint(defaultN)>>,
                   <<Scenario1, MaxIntWord>>, <<Scenario2, MaxIntWord>>,
                   <<Scenario3, MaxIntWord>> }

FileNames == { defaultFileName, "data" }

(* ------------------------------ main ----------------------------------- *)

TypeOK ==
    /\ fileFlag \in FileNames
    /\ nFlag \in Words
    /\ pos \in 0..Len(input)
    /\ \A k \in 1..Len(heap) : heap[k] \in Int
    /\ value \in Int
    /\ \A k \in 1..Len(selection) : selection[k] \in Int
    /\ i \in Nat /\ ~UintLess(nFlag, Uint(i))
    /\ \A k \in 1..Len(stdout) : stdout[k] \in {"0", "1", "2", "3", "4", "5", "6", "7", "8", "9", "-", " ", "\n"}
    /\ err \in {"nil", "open", "scan", "panic"}
    /\ exitCode \in {-1, 0, 1, 2}
    /\ pc \in {"main", "buildHeap", "scan", "Minimum", "ReplaceMin",
               "ReplaceMinPush", "takeTopN", "takeLoop", "printNumbers", "exit"}

Init ==
    /\ fileFlag \in FileNames
    /\ \E r \in Runs : input = r[1] /\ nFlag = r[2]
    /\ pos = 0
    /\ heap = <<>>
    /\ value = 0
    /\ selection = <<>>
    /\ i = 0
    /\ stdout = <<>>
    /\ stderr = ""
    /\ err = "nil"
    /\ exitCode = -1
    /\ pc = "main"

\* errLogger.Fatalf: one message on stderr, then os.Exit(1)
Fatalf(msg, e) ==
    /\ stderr' = "ERROR: " \o msg
    /\ err' = e
    /\ exitCode' = 1
    /\ pc' = "exit"

\* main, lines 56-66: stdin when no file is named, else os.Open, which the
\* file system lets succeed or fail.
SetupScanner ==
    /\ pc = "main"
    /\ \/ /\ fileFlag = defaultFileName
          /\ pc' = "buildHeap"
          /\ UNCHANGED <<stderr, err, exitCode>>
       \/ /\ fileFlag # defaultFileName
          /\ \E opened \in BOOLEAN :
                IF opened
                THEN pc' = "buildHeap" /\ UNCHANGED <<stderr, err, exitCode>>
                ELSE Fatalf("Failed to open file", "open")
    /\ UNCHANGED <<fileFlag, nFlag, input, pos, heap, value, selection, i, stdout>>

\* buildHeap, lines 97-98
BuildHeapEnter ==
    /\ pc = "buildHeap"
    /\ heap' = heap_Init(NewTopHeap(nFlag))
    /\ pc' = "scan"
    /\ UNCHANGED <<fileFlag, nFlag, input, pos, value, selection, i,
                   stdout, stderr, err, exitCode>>

\* One iteration of the scan loop: Scan() delivers the next line.  A value
\* that is to replace the minimum enters ReplaceMin, whose two heap calls are
\* the next two steps.
ScanLine ==
    /\ pc = "scan"
    /\ pos < Len(input)
    /\ pos' = pos + 1
    /\ LET text == input[pos + 1]
           a    == Atoi(text)
           r    == loopBody(heap, nFlag, text)
       IN  /\ value' = IF a.err THEN value ELSE a.value
           /\ heap' = IF r.branch = "replace" THEN heap ELSE r.heap
           /\ pc' = CASE r.branch = "replace" -> "ReplaceMin"
                      [] r.branch = "panic"   -> "exit"
                      [] OTHER                -> "scan"
           /\ exitCode' = IF r.branch = "panic" THEN 2 ELSE exitCode
           /\ stderr' = IF r.branch = "panic"
                        THEN "panic: runtime error: index out of range"
                        ELSE stderr
           /\ err' = IF r.branch = "panic" THEN "panic" ELSE err
    /\ UNCHANGED <<fileFlag, nFlag, input, selection, i, stdout>>

\* ReplaceMin: heap.Pop(h)
ReplaceMinPop ==
    /\ pc = "ReplaceMin"
    /\ heap' = heap_Pop(heap).heap
    /\ pc' = "ReplaceMinPush"
    /\ UNCHANGED <<fileFlag, nFlag, input, pos, value, selection, i,
                   stdout, stderr, err, exitCode>>

\* ReplaceMin: heap.Push(h, value)
ReplaceMinPush ==
    /\ pc = "ReplaceMinPush"
    /\ heap' = heap_Push(heap, value)
    /\ pc' = "scan"
    /\ UNCHANGED <<fileFlag, nFlag, input, pos, value, selection, i,
                   stdout, stderr, err, exitCode>>

\* Scan() returns false at the end of the input and Err() is nil: buildHeap
\* returns and main goes on to takeTopN.
ScanEOF ==
    /\ pc = "scan"
    /\ pos = Len(input)
    /\ pc' = "takeTopN"
    /\ UNCHANGED <<fileFlag, nFlag, input, pos, heap, value, selection, i,
                   stdout, stderr, err, exitCode>>

\* Variant of the read failure: main does not look at the error buildHeap
\* returns and goes on to takeTopN.
ScanFailIgnored ==
    /\ pc = "scan"
    /\ err' = "scan"
    /\ pc' = "takeTopN"
    /\ UNCHANGED <<fileFlag, nFlag, input, pos, heap, value, selection, i,
                   stdout, stderr, exitCode>>

\* Scan() returns false because reading failed: buildHeap returns the
\* partial heap and the error, and main takes the fatal exit.
ScanFail ==
    /\ pc = "scan"
    /\ Fatalf("Failed to scan numbers", "scan")
    /\ UNCHANGED <<fileFlag, nFlag, input, pos, heap, value, selection, i, stdout>>

\* takeTopN, lines 129-133
TakeTopNEnter ==
    /\ pc = "takeTopN"
    /\ selection' = <<>>
    /\ i' = 0
    /\ pc' = IF Len(heap) = 0 THEN "printNumbers" ELSE "takeLoop"
    /\ UNCHANGED <<fileFlag, nFlag, input, pos, heap, value,
                   stdout, stderr, err, exitCode>>

\* takeTopN, lines 135-139: one test of the loop condition and, when it
\* holds, one heap.Pop
TakeLoop ==
    /\ pc = "takeLoop"
    /\ IF UintLess(Uint(i), nFlag) /\ Len(heap) > 0
       THEN LET r == heap_Pop(heap)
            IN  /\ heap' = r.heap
                /\ selection' = Append(selection, r.x)
                /\ i' = i + 1
                /\ pc' = "takeLoop"
       ELSE /\ pc' = "printNumbers"
            /\ UNCHANGED <<heap, selection, i>>
    /\ UNCHANGED <<fileFlag, nFlag, input, pos, value, stdout, stderr, err, exitCode>>

\* printNumbers, then main returns
PrintNumbers ==
    /\ pc = "printNumbers"
    /\ stdout' = stdout \o printNumbers(selection)
    /\ exitCode' = 0
    /\ pc' = "exit"
    /\ UNCHANGED <<fileFlag, nFlag, input, pos, heap, value, selection, i,
                   stderr, err>>

Next ==
    \/ SetupScanner
    \/ BuildHeapEnter
    \/ ScanLine
    \/ ReplaceMinPop
    \/ ReplaceMinPush
    \/ ScanEOF
    \/ ScanFail
    \/ TakeTopNEnter
    \/ TakeLoop
    \/ PrintNumbers

Spec == Init /\ [][Next]_vars

(* ----------------------------------------------------------------------- *)
(* The copy of the program with TopHeap.Minimum and the early return for   *)
(* capacity 0 (src/unnamed/part_000, lines 1-231).  main, takeTopN,        *)
(* printNumbers and the heap are those of src/top_n.go; buildHeap differs. *)
(* ----------------------------------------------------------------------- *)

\* TopHeap.Minimum: the value at index 0, or an error on an empty heap
Minimum(h) ==
    IF Len(h) = 0 THEN [value |-> 0, err |-> TRUE]
    ELSE [value |-> h[1], err |-> FALSE]

\* Variant of the entry of buildHeap: without the return for capacity 0.
BuildHeapEnterNoReturn ==
    /\ pc = "buildHeap"
    /\ heap' = heap_Init(NewTopHeap(nFlag))
    /\ pc' = "scan"
    /\ UNCHANGED <<fileFlag, nFlag, input, pos, value, selection, i,
                   stdout, stderr, err, exitCode>>

\* buildHeap, lines 100-105: with capacity 0 it returns the empty heap and a
\* nil error before the scan loop
BuildHeapEnterA ==
    /\ pc = "buildHeap"
    /\ heap' = heap_Init(NewTopHeap(nFlag))
    /\ pc' = IF nFlag = Uint(0) THEN "takeTopN" ELSE "scan"
    /\ UNCHANGED <<fileFlag, nFlag, input, pos, value, selection, i,
                   stdout, stderr, err, exitCode>>

\* buildHeap, lines 107-118: Scan() delivers the next line; past the fill
\* phase the iteration goes on to call Minimum
ScanLineA ==
    /\ pc = "scan"
    /\ pos < Len(input)
    /\ pos' = pos + 1
    /\ LET a == Atoi(input[pos + 1])
       IN  IF a.err
           THEN pc' = "scan" /\ UNCHANGED <<heap, value>>
           ELSE /\ value' = a.value
                /\ IF fillPhase(heap, nFlag)
                   THEN heap' = heap_Push(heap, a.value) /\ pc' = "scan"
                   ELSE heap' = heap /\ pc' = "Minimum"
    /\ UNCHANGED <<fileFlag, nFlag, input, selection, i,
                   stdout, stderr, err, exitCode>>

\* buildHeap, lines 122-129: the call of Minimum and the comparison with it
MinimumA ==
    /\ pc = "Minimum"
    /\ LET m == Minimum(heap)
       IN  pc' = IF m.err \/ value < m.value THEN "scan" ELSE "ReplaceMin"
    /\ UNCHANGED <<fileFlag, nFlag, input, pos, heap, value, selection, i,
                   stdout, stderr, err, exitCode>>

NextA ==
    \/ SetupScanner
    \/ BuildHeapEnterA
    \/ ScanLineA
    \/ MinimumA
    \/ ReplaceMinPop
    \/ ReplaceMinPush
    \/ ScanEOF
    \/ ScanFail
    \/ TakeTopNEnter
    \/ TakeLoop
    \/ PrintNumbers

SpecA == Init /\ [][NextA]_vars

(* ----------------------------------------------------------------------- *)
(* The copy of the program with setupScanner (src/unnamed/part_000, lines  *)
(* 233-432).  buildHeap, printNumbers and the heap are those of            *)
(* src/top_n.go; main's setup and takeTopN differ.                         *)
(* ----------------------------------------------------------------------- *)

\* main, lines 276-279, and setupScanner
SetupScannerB ==
    /\ pc = "main"
    /\ \/ /\ fileFlag = defaultFileName
          /\ pc' = "buildHeap"
          /\ UNCHANGED <<stderr, err, exitCode>>
       \/ /\ fileFlag # defaultFileName
          /\ \E opened \in BOOLEAN :
                IF opened
                THEN pc' = "buildHeap" /\ UNCHANGED <<stderr, err, exitCode>>
                ELSE Fatalf("Failed to setup scanner", "open")
    /\ UNCHANGED <<fileFlag, nFlag, input, pos, heap, value, selection, i, stdout>>

\* takeTopN, line 359
TakeTopNEnterB ==
    /\ pc = "takeTopN"
    /\ selection' = <<>>
    /\ i' = 0
    /\ pc' = "takeLoop"
    /\ UNCHANGED <<fileFlag, nFlag, input, pos, heap, value,
                   stdout, stderr, err, exitCode>>

\* takeTopN, lines 361-365: the loop tests i < *nFlag alone.  heap.Pop on an
\* empty heap calls Swap(0, -1), whose index is out of range.
TakeLoopB ==
    /\ pc = "takeLoop"
    /\ IF UintLess(Uint(i), nFlag)
       THEN IF Len(heap) > 0
            THEN LET r == heap_Pop(heap)
                 IN  /\ heap' = r.heap
                     /\ selection' = Append(selection, r.x)
                     /\ i' = i + 1
                     /\ pc' = "takeLoop"
                     /\ UNCHANGED <<stderr, err, exitCode>>
            ELSE /\ pc' = "exit"
                 /\ exitCode' = 2
                 /\ stderr' = "panic: runtime error: index out of range"
                 /\ err' = "panic"
                 /\ UNCHANGED <<heap, selection, i>>
       ELSE /\ pc' = "printNumbers"
            /\ UNCHANGED <<heap, selection, i, stderr, err, exitCode>>
    /\ UNCHANGED <<fileFlag, nFlag, input, pos, value, stdout>>

NextB ==
    \/ SetupScannerB
    \/ BuildHeapEnter
    \/ ScanLine
    \/ ReplaceMinPop
    \/ ReplaceMinPush
    \/ ScanEOF
    \/ ScanFail
    \/ TakeTopNEnterB
    \/ TakeLoopB
    \/ PrintNumbers

SpecB == Init /\ [][NextB]_vars

(* ======================================================================= *)
(* Properties.  The operators below state what is expected of the program  *)
(* and are written independently of the operators that model it.           *)
(* ======================================================================= *)

DigitChars == {"0", "1", "2", "3", "4", "5", "6", "7", "8", "9"}

DigitOf(c) ==
    CASE c = "0" -> 0 [] c = "1" -> 1 [] c = "2" -> 2 [] c = "3" -> 3
      [] c = "4" -> 4 [] c = "5" -> 5 [] c = "6" -> 6 [] c = "7" -> 7
      [] c = "8" -> 8 [] c = "9" -> 9

\* the line is a decimal integer: an optional sign and at least one digit
IsIntegerLine(s) ==
    /\ s # <<>>
    /\ LET first == IF s[1] \in {"+", "-"} THEN 2 ELSE 1
       IN  Len(s) >= first /\ \A k \in first..Len(s) : s[k] \in DigitChars

RECURSIVE Magnitude(_, _)
Magnitude(s, k) ==
    IF k = 0 \/ s[k] \in {"+", "-"} THEN 0
    ELSE Magnitude(s, k - 1) * 10 + DigitOf(s[k])

\* the number an integer line denotes
IntegerOf(s) ==
    IF s[1] = "-" THEN 0 - Magnitude(s, Len(s)) ELSE Magnitude(s, Len(s))

\* the integers among the lines, in input order
RECURSIVE ValidValues(_)
ValidValues(lines) ==
    IF lines = <<>> THEN <<>>
    ELSE IF IsIntegerLine(Head(lines))
         THEN <<IntegerOf(Head(lines))>> \o ValidValues(Tail(lines))
         ELSE ValidValues(Tail(lines))

\* the integer lines among the lines, in input order
RECURSIVE IntegerLines(_)
IntegerLines(lines) ==
    IF lines = <<>> THEN <<>>
    ELSE IF IsIntegerLine(Head(lines))
         THEN <<Head(lines)>> \o IntegerLines(Tail(lines))
         ELSE IntegerLines(Tail(lines))

RECURSIVE InsertDesc(_, _)
InsertDesc(sorted, x) ==
    IF sorted = <<>> THEN <<x>>
    ELSE IF x >= Head(sorted) THEN <<x>> \o sorted
    ELSE <<Head(sorted)>> \o InsertDesc(Tail(sorted), x)

\* the values of s, largest first: equal for two sequences exactly when they
\* hold the same multiset
RECURSIVE SortDesc(_)
SortDesc(s) == IF s = <<>> THEN <<>> ELSE InsertDesc(SortDesc(Tail(s)), Head(s))

Reverse(s) == [k \in 1..Len(s) |-> s[Len(s) + 1 - k]]

MinNat(a, b) == IF a < b THEN a ELSE b

MinOf(h) == CHOOSE x \in {h[k] : k \in 1..Len(h)} : \A k \in 1..Len(h) : x <= h[k]

\* the number a word stands for, for a word below 2^31
NatOf(w) == w[1] + LimbBase * w[2]

\* min(n, k) for a capacity n (a word) and a count k
MinCap(n, k) == IF UintLess(n, Uint(k)) THEN NatOf(n) ELSE k

\* the capacity is at least k, is k
CapAtLeast(k) == ~UintLess(nFlag, Uint(k))
CapIs(k) == nFlag = Uint(k)

\* the min(n, count) largest of the integers among the lines, largest first
TopValues(lines, n) ==
    LET all == SortDesc(ValidValues(lines))
    IN  SubSeq(all, 1, MinCap(n, Len(all)))

\* the lines the scanner has delivered so far
Prefix == SubSeq(input, 1, pos)

RECURSIVE SplitSpaces(_, _, _)
SplitSpaces(s, cur, acc) ==
    IF s = <<>> THEN Append(acc, cur)
    ELSE IF Head(s) = " " THEN SplitSpaces(Tail(s), <<>>, Append(acc, cur))
    ELSE SplitSpaces(Tail(s), Append(cur, Head(s)), acc)

\* The numbers read back from what was printed: one newline-terminated line
\* of integers separated by single spaces, without leading or trailing space.
ReadBack(out) ==
    IF out = <<>> \/ out[Len(out)] # "\n" THEN [ok |-> FALSE, numbers |-> <<>>]
    ELSE LET body   == SubSeq(out, 1, Len(out) - 1)
             tokens == IF body = <<>> THEN <<>> ELSE SplitSpaces(body, <<>>, <<>>)
         IN  IF \A k \in 1..Len(tokens) : IsIntegerLine(tokens[k])
             THEN [ok |-> TRUE,
                   numbers |-> [k \in 1..Len(tokens) |-> IntegerOf(tokens[k])]]
             ELSE [ok |-> FALSE, numbers |-> <<>>]

NonDescending(s) == \A k \in 1..(Len(s) - 1) : s[k] <= s[k + 1]

StrictlyAscending(s) == \A k \in 1..(Len(s) - 1) : s[k] < s[k + 1]

\* the step consumes the next line of the input
ReadsLine == pc = "scan" /\ pos' = pos + 1

\* C1: at every point between two offers, and at the end of the scan, the
\* heap holds exactly the min(N, k) largest of the k integers read so far,
\* as a multiset.
C1_HeapHoldsTopValues ==
    pc \in {"scan", "takeTopN"}
        => SortDesc(heap) = TopValues(Prefix, nFlag)

\* a full heap of at least two values has seen both a discard and a replace
C1_Witness ==
    /\ pc = "takeTopN"
    /\ CapAtLeast(2)
    /\ nFlag = Uint(Len(heap))
    /\ Len(ValidValues(input)) >= Len(heap) + 2
    /\ SortDesc(heap) # SortDesc(SubSeq(ValidValues(input), 1, Len(heap)))
    /\ ValidValues(input)[Len(ValidValues(input))] < MinOf(heap)

\* C2: the heap never holds more than N values, in any state, the state
\* between the two heap calls of ReplaceMin included.
C2_SizeBounded == CapAtLeast(Len(heap))

\* inside ReplaceMin, after heap.Pop and before heap.Push
C2_Witness == pc = "ReplaceMinPush" /\ CapAtLeast(2) /\ nFlag = Uint(Len(heap) + 1)

\* C3: the printed line lists the retained values, one per retained copy,
\* largest first with ties adjacent; 5, 3, 9, 1, 9, 7 with capacity 3 prints
\* "9 9 7".
C3_PrintedLine ==
    (pc = "exit" /\ exitCode = 0)
        => /\ ReadBack(stdout).ok
           /\ ReadBack(stdout).numbers = TopValues(input, nFlag)
           /\ (input = Scenario1 /\ CapIs(3)
                 => stdout = <<"9", " ", "9", " ", "7", "\n">>)

\* a line of three numbers with a tie and a negative number
C3_Witness ==
    /\ pc = "exit"
    /\ exitCode = 0
    /\ Len(ReadBack(stdout).numbers) = 3
    /\ ReadBack(stdout).numbers[1] = ReadBack(stdout).numbers[2]
    /\ ReadBack(stdout).numbers[3] < 0

\* C4: with capacity 0 the run never faults, and when it ends normally it
\* has printed an empty line.
C4_ZeroCapacityCompletes ==
    CapIs(0) => /\ err # "panic"
                 /\ (pc = "exit" /\ exitCode = 0 => stdout = <<"\n">>)

\* C5: when the input holds fewer integers than the capacity, the heap
\* holds every integer read so far, ReplaceMin is never entered, takeTopN
\* returns all of them and all are printed.
C5_FewerThanCapacity ==
    UintLess(Uint(Len(ValidValues(input))), nFlag)
        => /\ (pc \in {"scan", "takeTopN"}
                 => SortDesc(heap) = SortDesc(ValidValues(Prefix)))
           /\ pc \notin {"ReplaceMin", "ReplaceMinPush"}
           /\ err # "panic"
           /\ (pc = "printNumbers"
                 => SortDesc(selection) = SortDesc(ValidValues(input)))
           /\ (pc = "exit" /\ exitCode = 0
                 => /\ ReadBack(stdout).ok
                    /\ SortDesc(ReadBack(stdout).numbers)
                          = SortDesc(ValidValues(input)))
           /\ (pc = "exit" /\ exitCode = 0 /\ input = Scenario2
                 => stdout = <<"3", "0", " ", "2", "0", " ", "1", "0", "\n">>)

\* three integers, one short of the capacity, all printed
C5_Witness ==
    /\ pc = "exit"
    /\ exitCode = 0
    /\ CapIs(4)
    /\ Len(ValidValues(input)) = 3
    /\ Len(ReadBack(stdout).numbers) = 3

\* C6: a step that reads a line that is no integer leaves the heap, its
\* size and the error state as they were and goes on scanning; and what a
\* run prints (or the fault that ends it) is what the program gives on the
\* input with those lines removed.
C6_MalformedLineSkipped ==
    /\ [][ (ReadsLine /\ ~IsIntegerLine(input[pos + 1]))
              => /\ heap' = heap
                 /\ pc' = "scan"
                 /\ UNCHANGED <<err, exitCode, stdout, stderr>> ]_vars
    /\ [](pc = "exit" /\ exitCode = 0
            => stdout = printNumbers(takeTopN(
                          buildHeap(IntegerLines(input), nFlag).heap, nFlag)))
    /\ [](err = "panic" => buildHeap(IntegerLines(Prefix), nFlag).panic)

\* a malformed line was just read between two integers that are both held
C6_Witness ==
    /\ pc = "exit"
    /\ exitCode = 0
    /\ Len(input) >= 3
    /\ IsIntegerLine(input[1])
    /\ ~IsIntegerLine(input[2])
    /\ IsIntegerLine(input[3])
    /\ Len(ReadBack(stdout).numbers) >= 2

\* C7: after a failure to open the input or to read it the program has
\* exited with code 1 without entering takeTopN or printing; standard output
\* is either empty or one full line printed by a run that exited with 0.
C7_FatalPrintsNothing ==
    /\ (err \in {"open", "scan"}
          => /\ pc = "exit"
             /\ exitCode = 1
             /\ stdout = <<>>
             /\ selection = <<>>)
    /\ (stdout # <<>>
          => pc = "exit" /\ exitCode = 0 /\ err = "nil" /\ ReadBack(stdout).ok)

\* a read failure after two lines were offered and a value is held
C7_Witness ==
    /\ err = "scan"
    /\ pos >= 2
    /\ Len(heap) >= 1
    /\ exitCode = 1

\* C8 as stated: the values taken from the heap are strictly ascending.
C8_DrainStrictlyAscending ==
    pc \in {"takeLoop", "printNumbers"} => StrictlyAscending(selection)

\* C8, amended: the values taken from the heap are in non-descending order:
\* each is greater than or equal to the one taken before it, and the
\* sequence returned holds exactly what the heap held.
C8_DrainNonDescending ==
    /\ pc \in {"takeLoop", "printNumbers"} => NonDescending(selection)
    /\ pc = "printNumbers" => Reverse(selection) = TopValues(input, nFlag)

\* four values were drained, two of them equal
C8_Witness ==
    /\ pc = "printNumbers"
    /\ Len(selection) = 4
    /\ \E k \in 1..3 : selection[k] = selection[k + 1]
    /\ selection[1] < selection[4]

\* C9: offering a value smaller than the minimum to a full heap changes
\* nothing: the backing array is the same and the scan goes on.
C9_DiscardIsNoOp ==
    [][ (/\ ReadsLine
         /\ IsIntegerLine(input[pos + 1])
         /\ CapAtLeast(1)
         /\ nFlag = Uint(Len(heap))
         /\ IntegerOf(input[pos + 1]) < MinOf(heap))
            => /\ heap' = heap
               /\ pc' = "scan"
               /\ UNCHANGED <<err, exitCode, stdout, selection>> ]_vars

\* the last line read is an integer below the minimum of a full heap
C9_Witness ==
    /\ pc = "scan"
    /\ pos >= 1
    /\ CapAtLeast(2)
    /\ nFlag = Uint(Len(heap))
    /\ UintLess(nFlag, Uint(Len(ValidValues(Prefix))))
    /\ IsIntegerLine(input[pos])
    /\ IntegerOf(input[pos]) < MinOf(heap)

\* C10: offering a value greater than or equal to the minimum to a full
\* heap enters ReplaceMin with that value; its heap.Pop removes one copy of
\* the minimum and its heap.Push adds the value, which leaves N values.
C10_ReplaceMinimum ==
    [][ /\ (/\ ReadsLine
            /\ IsIntegerLine(input[pos + 1])
            /\ CapAtLeast(1)
            /\ nFlag = Uint(Len(heap))
            /\ IntegerOf(input[pos + 1]) >= MinOf(heap))
               => /\ pc' = "ReplaceMin"
                  /\ heap' = heap
                  /\ value' = IntegerOf(input[pos + 1])
        /\ pc = "ReplaceMin"
               => /\ pc' = "ReplaceMinPush"
                  /\ value' = value
                  /\ SortDesc(heap') = SubSeq(SortDesc(heap), 1, Len(heap) - 1)
        /\ pc = "ReplaceMinPush"
               => /\ pc' = "scan"
                  /\ SortDesc(heap') = SortDesc(Append(heap, value))
                  /\ nFlag = Uint(Len(heap')) ]_vars

\* a value equal to the minimum has replaced it in a full heap of three
C10_Witness ==
    /\ pc = "scan"
    /\ CapIs(3)
    /\ Len(heap) = 3
    /\ Len(ValidValues(Prefix)) = 4
    /\ IsIntegerLine(input[pos])
    /\ value = MinOf(heap)
    /\ value = MinOf(ValidValues(SubSeq(input, 1, pos - 1)))

\* The selector with the other admission policy: a value equal to the
\* minimum is discarded, only a greater one replaces it.
loopBodyStrict(h, n, text) ==
    IF ~IsIntegerLine(text) THEN [branch |-> "skip", heap |-> h]
    ELSE IF IntLess(Len(h), uintToInt(n))
         THEN [branch |-> "fill", heap |-> heap_Push(h, IntegerOf(text))]
    ELSE IF Len(h) = 0 THEN [branch |-> "panic", heap |-> h]
    ELSE IF IntegerOf(text) <= h[1] THEN [branch |-> "discard", heap |-> h]
    ELSE [branch |-> "replace", heap |-> ReplaceMin(h, IntegerOf(text))]

RECURSIVE scanLoopStrict(_, _, _)
scanLoopStrict(h, n, lines) ==
    IF lines = <<>> THEN [heap |-> h, panic |-> FALSE]
    ELSE LET r == loopBodyStrict(h, n, Head(lines))
         IN  IF r.branch = "panic" THEN [heap |-> h, panic |-> TRUE]
             ELSE scanLoopStrict(r.heap, n, Tail(lines))

buildHeapStrict(lines, n) == scanLoopStrict(<<>>, n, lines)

\* C11: after every offer the heap holds the same multiset as the selector
\* that discards values equal to the minimum, run on the same capacity and
\* lines; and the printed line is the one that selector gives.
C11_EqualPolicyUnobservable ==
    /\ pc \in {"scan", "takeTopN"}
          => /\ ~buildHeapStrict(Prefix, nFlag).panic
             /\ SortDesc(heap) = SortDesc(buildHeapStrict(Prefix, nFlag).heap)
    /\ (pc = "exit" /\ exitCode = 0)
          => stdout = printNumbers(takeTopN(buildHeapStrict(input, nFlag).heap,
                                            nFlag))
    /\ err = "panic" => buildHeapStrict(Prefix, nFlag).panic

\* the two policies have left different backing arrays of the same values
C11_Witness ==
    /\ pc = "takeTopN"
    /\ nFlag = Uint(Len(heap))
    /\ heap # buildHeapStrict(input, nFlag).heap
    /\ SortDesc(heap) = SortDesc(buildHeapStrict(input, nFlag).heap)

\* container/heap's invariant on the backing array, indices from 0:
\* !h.Less(j, i) for 0 <= i < h.Len() and 2*i+1 <= j <= 2*i+2 and j < h.Len()
IsMinHeap(h) ==
    \A a \in 0..(Len(h) - 1) :
        \A b \in {2 * a + 1, 2 * a + 2} :
            b < Len(h) => h[a + 1] <= h[b + 1]

\* C12: after every completed heap.Push, ReplaceMin and heap.Pop (between
\* the two halves of ReplaceMin included) the backing array is in min-heap
\* order, and index 0 holds the minimum of the held values.
C12_HeapOrder ==
    /\ IsMinHeap(heap)
    /\ heap # <<>> => heap[1] = MinOf(heap)

\* the drain has popped from a heap that had replaced a minimum, and what
\* is left is in heap order without being sorted
C12_Witness ==
    /\ pc = "takeLoop"
    /\ i >= 1
    /\ Len(heap) >= 3
    /\ heap[2] > heap[3]
    /\ UintLess(nFlag, Uint(Len(ValidValues(input))))

\* the lines whose offer has been completed: the line being admitted by
\* ReplaceMin is not yet one of them
Offered ==
    IF pc \in {"ReplaceMin", "ReplaceMinPush"}
    THEN SubSeq(input, 1, pos - 1)
    ELSE Prefix

RECURSIVE RemoveOne(_, _)
RemoveOne(s, x) ==
    IF s = <<>> THEN <<>>
    ELSE IF Head(s) = x THEN Tail(s)
    ELSE <<Head(s)>> \o RemoveOne(Tail(s), x)

RECURSIVE Without(_, _)
Without(s, gone) ==
    IF gone = <<>> THEN s ELSE Without(RemoveOne(s, Head(gone)), Tail(gone))

\* the offered integers that are neither held nor extracted: those discarded
\* by the comparison and those evicted by ReplaceMin
Dropped == Without(ValidValues(Offered), heap \o selection)

\* C13: every value discarded by the comparison or evicted by ReplaceMin is
\* <= the current minimum of the heap, in every state; and once the heap is
\* full its minimum after an offer is never below its minimum after an
\* earlier offer.
C13_DroppedBelowMinimum ==
    /\ err # "panic"
          => Len(Dropped) + Len(heap) + Len(selection) = Len(ValidValues(Offered))
    /\ heap # <<>> => \A k \in 1..Len(Dropped) : Dropped[k] <= MinOf(heap)
    /\ pc \in {"scan", "takeTopN"}
          => /\ heap = buildHeap(Prefix, nFlag).heap
             /\ \A k \in 0..pos :
                   LET before == buildHeap(SubSeq(input, 1, k), nFlag).heap
                   IN  (CapAtLeast(1) /\ nFlag = Uint(Len(before)))
                           => MinOf(before) <= MinOf(heap)

\* one value has been discarded and another evicted, and the minimum has
\* risen since the heap became full
C13_Witness ==
    /\ pc = "scan"
    /\ CapAtLeast(2)
    /\ nFlag = Uint(Len(heap))
    /\ Len(Dropped) >= 2
    /\ Dropped[1] # Dropped[2]
    /\ \E k \in 0..pos :
          LET before == buildHeap(SubSeq(input, 1, k), nFlag).heap
          IN  nFlag = Uint(Len(before)) /\ MinOf(before) < MinOf(heap)

\* C14: takeTopN never extracts from an empty heap: no step of its loop
\* faults, and when it returns it has made exactly min(N, s) extractions,
\* s being the size of the heap buildHeap left (what is still held plus what
\* was extracted).
C14_DrainNeverFaults ==
    /\ [][pc = "takeLoop" => err' # "panic"]_vars
    /\ [](pc = "printNumbers"
            => /\ Len(selection) = MinCap(nFlag, Len(heap) + Len(selection))
               /\ i = Len(selection))

\* C15: whenever buildHeap calls Minimum the heap holds exactly N >= 1
\* values, so Minimum returns the value at index 0 with a nil error and the
\* skip on its error is never taken.
C15_MinimumGuardUnreachable ==
    pc = "Minimum"
        => /\ CapAtLeast(1)
           /\ nFlag = Uint(Len(heap))
           /\ ~Minimum(heap).err
           /\ Minimum(heap).value = MinOf(heap)

\* C16: with N = 0 buildHeap makes no scan step: no line is consumed, the
\* heap stays empty, no read failure or fault is reported, and once the
\* scanner is set up the run ends with exit code 0 having printed an empty
\* line.
C16_ZeroCapacityNoScan ==
    CapIs(0)
        => /\ pos = 0
           /\ heap = <<>>
           /\ pc \notin {"scan", "Minimum", "ReplaceMin", "ReplaceMinPush", "takeLoop"}
           /\ err \notin {"scan", "panic"}
           /\ (pc = "exit" /\ err = "nil")
                 => exitCode = 0 /\ stdout = <<"\n">> /\ stderr = ""

\* a run with N = 0 on an input that has integers has ended normally
C16_Witness ==
    /\ CapIs(0)
    /\ pc = "exit"
    /\ exitCode = 0
    /\ Len(ValidValues(input)) >= 2
    /\ pos = 0
    /\ stdout = <<"\n">>

\* C17: for every capacity N >= 1 of the unsigned flag, once lines have been
\* read: int(N) is not negative, the fill test Len() < int(N) is the test
\* Len() < N, the heap holds the first min(N, k) integers' worth of values
\* between offers, and the minimum has not been read from an empty heap.
C17_ConversionKeepsCapacity ==
    (CapAtLeast(1) /\ pos >= 1)
        => /\ ~uintToInt(nFlag).negative
           /\ uintToInt(nFlag).magnitude = nFlag
           /\ fillPhase(heap, nFlag) <=> UintLess(Uint(Len(heap)), nFlag)
           /\ err # "panic"
           /\ pc \in {"scan", "takeTopN"}
                 => Len(heap) = MinCap(nFlag, Len(ValidValues(Prefix)))

====
